---- MODULE Spec2Model ----
(***************************************************************************)
(* Model of the BOSS data visualisation tool: the Excel loader             *)
(* (src/data_loader.py), the query functions (src/data_processor.py) and   *)
(* the Streamlit script that drives them (src/app.py).                     *)
(*                                                                         *)
(* Time is counted in milli-days (1/1000 of a day) since the epoch         *)
(* 1899-12-30 00:00, so that a serial number such as 0.999 and a time of   *)
(* day are both exact integers.                                            *)
(***************************************************************************)
EXTENDS Integers, Sequences, FiniteSets, TLC

VARIABLES
    pc,         \* position of the script (or of the pure-function harness)
    sheet,      \* the uploaded workbook
    table,      \* df: the table returned by load_data, NoTable before / on failure
    names,      \* user_names returned by load_data
    loadErr,    \* exception raised by load_excel_data ("none" when it returned)
    warnDrop,   \* number printed by the warning of line 223 (0: nothing printed)
    sel,        \* the sidebar widgets' values
    filtered,   \* filtered_df
    out,        \* the last query call: [call, err, val]
    dateIn,     \* argument of safe_convert_date in the date harness
    dateOut     \* its result

vars == <<pc, sheet, table, names, loadErr, warnDrop, sel, filtered, out,
          dateIn, dateOut>>

(***************************************************************************)
(* Cells of the workbook as openpyxl / pandas hand them to the code.       *)
(*   k = "nan" : empty cell (NaN)                                          *)
(*   k = "num" : int or float; n is the value (milli-days in a date cell,  *)
(*               the plain number in a metric cell)                        *)
(*   k = "dt"  : datetime cell; n is the instant in milli-days             *)
(*   k = "str" : text; s is the text                                       *)
(***************************************************************************)
NaN == [k |-> "nan", n |-> 0, s |-> ""]
Num(v) == [k |-> "num", n |-> v, s |-> ""]
Dt(v) == [k |-> "dt", n |-> v, s |-> ""]
Str(t) == [k |-> "str", n |-> 0, s |-> t]

\* pd.NaT and a pandas Timestamp
NaT == [nat |-> TRUE, t |-> 0]
TS(v) == [nat |-> FALSE, t |-> v]

MilliPerDay == 1000

\* datetime(1899, 12, 30): the instant 0 of this model
base_date == 0

\* Excel serial numbers accepted by the primary path (line 134)
SerialMin == 1
SerialMax == 100000

\* pandas Timestamp bounds (1677-09-21 .. 2262-04-11) in milli-days since
\* 1899-12-30; pd.to_datetime raises OutOfBoundsDatetime beyond them
TimestampMin == -81182991
TimestampMax == 132320991

\* int(x) for a number given in milli-days: truncation towards zero, in days
IntDays(md) == IF md >= 0 THEN md \div MilliPerDay ELSE -((-md) \div MilliPerDay)

\* convert_excel_date counting from 1900-01-01, the nominal day 1 of the
\* spreadsheet calendar, instead of 1899-12-30
convert_excel_date_from_1900(c) ==
    IF c.k # "num" THEN [err |-> "ValueError", ts |-> NaT]
    ELSE IF c.n < 0 THEN [err |-> "ValueError", ts |-> NaT]
    ELSE [err |-> "none", ts |-> TS(base_date + (IntDays(c.n) + 2) * MilliPerDay)]

(***************************************************************************)
(* convert_excel_date: raises ValueError on a negative serial, otherwise   *)
(* base_date + timedelta(days=int(excel_date)).                            *)
(***************************************************************************)
convert_excel_date(c) ==
    IF c.k # "num" THEN [err |-> "ValueError", ts |-> NaT]
    ELSE IF c.n < 0 THEN [err |-> "ValueError", ts |-> NaT]
    ELSE [err |-> "none", ts |-> TS(base_date + IntDays(c.n) * MilliPerDay)]

\* the header words safe_convert_date skips (line 123); the two Chinese words
\* of that list are written "riqi" (date) and "shijian" (time) here
DateHeaderWords == {"riqi", "date", "Date", "DATE", "shijian"}

\* x.strip() for the texts the model uses: they carry at most one blank at each end
Strip(t) ==
    CASE t = " riqi " -> "riqi"
      [] t = " exposure " -> "exposure"
      [] t = "  " -> ""
      [] t = " Alice " -> "Alice"
      [] OTHER -> t

\* pd.to_datetime(text): the instant for the date strings the model uses,
\* an exception (NaT here) for any other text
ParseableStrings == {"2024-12-31", "2025-01-01", "2025-01-01 12:00", "2025-01-02"}
to_datetime_str(t) ==
    CASE t = "2024-12-31" -> TS(45657 * MilliPerDay)
      [] t = "2025-01-01" -> TS(45658 * MilliPerDay)
      [] t = "2025-01-01 12:00" -> TS(45658 * MilliPerDay + 500)
      [] t = "2025-01-02" -> TS(45659 * MilliPerDay)
      [] OTHER -> NaT

\* pd.to_datetime(x, origin='1899-12-30', unit='D'): origin + x days, with the
\* fraction of a day kept; OutOfBoundsDatetime (NaT here) outside Timestamp's range
to_datetime_origin(md) ==
    IF md < TimestampMin \/ md > TimestampMax THEN NaT ELSE TS(base_date + md)

(***************************************************************************)
(* safe_convert_date (lines 112-146)                                       *)
(***************************************************************************)
safe_convert_date(c) ==
    CASE c.k = "nan" -> NaT
      [] c.k = "dt" -> TS(c.n)
      [] c.k = "str" ->
            IF Strip(c.s) \in DateHeaderWords THEN NaT ELSE to_datetime_str(c.s)
      [] c.k = "num" ->
            IF SerialMin * MilliPerDay <= c.n /\ c.n <= SerialMax * MilliPerDay
            THEN convert_excel_date(c).ts
            ELSE to_datetime_origin(c.n)
      [] OTHER -> NaT

(***************************************************************************)
(* The workbook.  sheet.rows is the grid: row 0 holds the user names,      *)
(* row 1 the metric labels, rows 2.. the data.  Column c of a row is       *)
(* row[c + 1].  The label texts of lines 168-176 are written in English:   *)
(* "exposure", "greet", "kill", "exchange", "add".                         *)
(***************************************************************************)
\* pd.read_excel turns a text cell holding one of its default NA markers into
\* NaN, like an empty cell; every other cell comes as it is in the workbook
NaValues == {"", "N/A", "n/a", "NA", "NULL", "null", "NaN", "nan", "None", "#N/A"}
ReadCell(c) == IF c.k = "str" /\ c.s \in NaValues THEN NaN ELSE c

\* the cell of column c in a row read by pd.read_excel
Cell(row, c) == ReadCell(row[c + 1])

MinColumns == 12

\* df = pd.read_excel(file_path): row 0 becomes the column names, so the rows
\* of df are the grid rows 1.. : the label row and the data rows (line 85)
DfRows(sh) == IF Len(sh.rows) >= 2 THEN SubSeq(sh.rows, 2, Len(sh.rows)) ELSE <<>>

\* header_val of lines 167 and 182
HeaderVal(c) ==
    CASE c.k = "nan" -> ""
      [] c.k = "str" -> Strip(c.s)
      [] OTHER -> "#value"

\* the if / elif chain of lines 168-177; "" when no branch is taken
User1Field(h) ==
    CASE h = "exposure" -> "user1_exposure"
      [] h = "greet" -> "user1_greet"
      [] h = "kill" -> "user1_kill"
      [] h = "exchange" -> "user1_exchange"
      [] h = "add" -> "user1_add"
      [] OTHER -> ""

\* the if / elif chain of lines 183-192
User2Field(h) ==
    CASE h = "exposure" -> "user2_exposure"
      [] h = "greet" -> "user2_greet"
      [] h = "kill" -> "user2_kill"
      [] h = "exchange" -> "user2_exchange"
      [] h = "add" -> "user2_add"
      [] OTHER -> ""

Min(a, b) == IF a < b THEN a ELSE b

\* A Python dict as the sequence of its <<key, value>> pairs in insertion order
DictHas(d, key) == \E i \in 1..Len(d) : d[i][1] = key
DictSet(d, key, val) ==
    IF DictHas(d, key)
    THEN [i \in 1..Len(d) |-> IF d[i][1] = key THEN <<key, val>> ELSE d[i]]
    ELSE Append(d, <<key, val>>)

\* user1_cols (lines 165-177): columns 1 .. min(6, len(header_row)) - 1
RECURSIVE User1Cols(_, _, _)
User1Cols(header_row, col_idx, stop) ==
    IF col_idx >= stop THEN <<>>
    ELSE LET f == User1Field(HeaderVal(Cell(header_row, col_idx)))
             rest == User1Cols(header_row, col_idx + 1, stop)
         IN IF f = "" THEN rest ELSE <<<<col_idx, f>>>> \o rest

\* user2_cols (lines 180-192): columns 8 .. min(13, len(header_row)) - 1
RECURSIVE User2Cols(_, _, _)
User2Cols(header_row, col_idx, stop) ==
    IF col_idx >= stop THEN <<>>
    ELSE LET f == User2Field(HeaderVal(Cell(header_row, col_idx)))
             rest == User2Cols(header_row, col_idx + 1, stop)
         IN IF f = "" THEN rest ELSE <<<<col_idx, f>>>> \o rest

\* lines 195-201: column_mapping[headers[col_idx]] = col_name for each entry
RECURSIVE MergeCols(_, _, _)
MergeCols(mapping, cols, nheaders) ==
    IF cols = <<>> THEN mapping
    ELSE MergeCols(IF cols[1][1] < nheaders
                   THEN DictSet(mapping, cols[1][1], cols[1][2])
                   ELSE mapping,
                   Tail(cols), nheaders)

\* column_mapping as built by lines 154-201, keyed by column index
\* (headers[i] is the unique name pandas gives column i)
ColumnMapping(sh) ==
    LET header_row == sh.rows[2]
        n == Len(header_row)
        initial == << <<1, "user1_exposure">>, <<2, "user1_greet">> >>
        user1_cols == User1Cols(header_row, 1, Min(6, n))
        user2_cols == User2Cols(header_row, 8, Min(13, n))
    IN MergeCols(MergeCols(initial, user1_cols, sh.ncols), user2_cols, sh.ncols)

\* lines 206-208: new_df[new_col] = df[old_col] in the dict's order, a later
\* assignment to the same new_col replacing the earlier one
MappedFields(mapping) == { mapping[i][2] : i \in 1..Len(mapping) }
SourceColumn(mapping, field) ==
    LET is == { i \in 1..Len(mapping) : mapping[i][2] = field }
        last == CHOOSE i \in is : \A j \in is : j <= i
    IN mapping[last][1]

\* dtype pandas infers for a raw column of df
ColumnDtype(dfrows, c) ==
    IF \E i \in 1..Len(dfrows) : Cell(dfrows[i], c).k \in {"str", "dt"} THEN "object"
    ELSE IF \E i \in 1..Len(dfrows) : Cell(dfrows[i], c).k = "nan" THEN "float64"
    ELSE "int64"

(***************************************************************************)
(* A DataFrame: rows of [date, v] where v gives the cell of every metric   *)
(* column, dtype the dtype of every metric column (its domain is the set   *)
(* of metric columns) and dateDtype the dtype of the date column.          *)
(***************************************************************************)
NoFields == [f \in {} |-> ""]
NoTable == [rows |-> <<>>, dtype |-> NoFields, dateDtype |-> "none"]
Columns(df) == DOMAIN df.dtype

\* one row of new_df (lines 204-208), the date being that of line 148
\* (line 109 gives the same instants when pandas already parsed the column)
BuildRow(mapping, dfrow) ==
    [date |-> safe_convert_date(Cell(dfrow, 0)),
     v |-> [f \in MappedFields(mapping) |-> Cell(dfrow, SourceColumn(mapping, f))]]

\* new_df.dropna(subset=['date']) (line 212)
DropNaDate(rows) == SelectSeq(rows, LAMBDA r : ~r.date.nat)

\* A stable ascending sort by date: rows of equal date keep their order
RECURSIVE Insert(_, _)
Insert(sorted, r) ==
    IF sorted = <<>> THEN <<r>>
    ELSE IF sorted[Len(sorted)].date.t <= r.date.t THEN Append(sorted, r)
    ELSE Append(Insert(SubSeq(sorted, 1, Len(sorted) - 1), r), sorted[Len(sorted)])

RECURSIVE SortByDate(_)
SortByDate(rows) ==
    IF rows = <<>> THEN <<>>
    ELSE Insert(SortByDate(SubSeq(rows, 1, Len(rows) - 1)), rows[Len(rows)])

\* the permutations of 1..n: what an argsort of n rows can return
ArgSorts(n) == { p \in [1..n -> 1..n] : \A i, j \in 1..n : p[i] = p[j] => i = j }

\* new_df.sort_values('date') (line 226).  The call leaves kind at its default,
\* 'quicksort', which pandas documents as not stable: the result is ascending
\* by date, and rows of equal date come in an order the call does not fix.
\* sort_values(rows) is the set of results the call may give.
sort_values(rows) ==
    { [i \in 1..Len(rows) |-> rows[p[i]]] :
        p \in { q \in ArgSorts(Len(rows)) :
                  \A i \in 1..(Len(rows) - 1) : rows[q[i]].date.t <= rows[q[i + 1]].date.t } }

\* lines 72-81: the user names
DefaultName1 == "user1-default"
DefaultName2 == "user2-default"
CellText(c) == IF c.k = "str" THEN c.s ELSE "#value"
UserName(first_row, col, default) ==
    IF Len(first_row) > col /\ Cell(first_row, col).k # "nan"
    THEN Strip(CellText(Cell(first_row, col)))
    ELSE default

Failure(e) == [err |-> e, df |-> NoTable, names |-> <<>>, warn |-> 0]

(***************************************************************************)
(* load_excel_data (lines 60-239): the results the call may give on a      *)
(* workbook, each the table and the user names or the exception raised.    *)
(* There is one result, except that rows of equal date may come in any     *)
(* order (sort_values).                                                    *)
(***************************************************************************)
load_excel_data(sh) ==
    IF ~sh.exists THEN {Failure("FileNotFoundError")}
    ELSE IF Len(sh.rows) = 0 THEN {Failure("ValueError: read failed")}
    ELSE IF DfRows(sh) = <<>> THEN {Failure("ValueError: empty")}
    ELSE IF sh.ncols < MinColumns THEN {Failure("ValueError: columns")}
    ELSE
      LET dfrows == DfRows(sh)
          mapping == ColumnMapping(sh)
          new_rows == [i \in 1..Len(dfrows) |-> BuildRow(mapping, dfrows[i])]
          kept == DropNaDate(new_rows)
          before_drop == Len(new_rows)
          after_drop == Len(kept)
      IN IF after_drop = 0 THEN {Failure("ValueError: dates")}
         ELSE { [err |-> "none",
                 df |-> [rows |-> sorted,
                         dtype |-> [f \in MappedFields(mapping) |->
                                      ColumnDtype(dfrows, SourceColumn(mapping, f))],
                         dateDtype |-> "datetime64[ns]"],
                 names |-> <<UserName(sh.rows[1], 0, DefaultName1),
                             UserName(sh.rows[1], 7, DefaultName2)>>,
                 warn |-> before_drop - after_drop] : sorted \in sort_values(kept) }

(***************************************************************************)
(* The query functions of src/data_processor.py.  Each returns             *)
(*   err : the exception raised ("none" when the call returns),            *)
(*   df  : the caller's DataFrame as the call leaves it,                   *)
(*   out : the value returned.                                             *)
(***************************************************************************)
NoOut == <<>>

\* pd.to_datetime('YYYY-MM-DD'): midnight of that day; days are serial numbers
Midnight(day) == day * MilliPerDay

filter_by_date_range(df, start_date, end_date) ==
    LET start_dt == Midnight(start_date)
        end_dt == Midnight(end_date)
        df1 == IF df.dateDtype # "datetime64[ns]"
               THEN [df EXCEPT !.dateDtype = "datetime64[ns]"]
               ELSE df
        filtered_df == [df1 EXCEPT !.rows =
                           SelectSeq(df1.rows,
                                     LAMBDA r : r.date.t >= start_dt /\ r.date.t <= end_dt)]
    IN [err |-> "none", df |-> df1, out |-> filtered_df]

\* the keys of metric_mapping (lines 83-89), written in English like the labels
Metrics == {"exposure", "greet", "exchange", "add", "kill"}

metric_mapping(metric) ==
    CASE metric = "exposure" -> <<"user1_exposure", "user2_exposure">>
      [] metric = "greet" -> <<"user1_greet", "user2_greet">>
      [] metric = "exchange" -> <<"user1_exchange", "user2_exchange">>
      [] metric = "add" -> <<"user1_add", "user2_add">>
      [] metric = "kill" -> <<"user1_kill", "user2_kill">>

\* df[col].tolist()
ColumnValues(df, col) == [i \in 1..Len(df.rows) |-> df.rows[i].v[col]]
DateValues(df) == [i \in 1..Len(df.rows) |-> df.rows[i].date]

get_metric_data(df, metric) ==
    IF metric \notin Metrics THEN [err |-> "ValueError", df |-> df, out |-> NoOut]
    ELSE LET user1_col == metric_mapping(metric)[1]
             user2_col == metric_mapping(metric)[2]
         IN IF user1_col \notin Columns(df) \/ user2_col \notin Columns(df)
            THEN [err |-> "KeyError", df |-> df, out |-> NoOut]
            ELSE [err |-> "none", df |-> df,
                  out |-> <<DateValues(df), ColumnValues(df, user1_col),
                            ColumnValues(df, user2_col)>>]

get_dual_metric_data(df, metric1, metric2) ==
    IF metric1 \notin Metrics \/ metric2 \notin Metrics
    THEN [err |-> "ValueError", df |-> df, out |-> NoOut]
    ELSE LET c1 == metric_mapping(metric1)
             c2 == metric_mapping(metric2)
         IN IF {c1[1], c1[2], c2[1], c2[2]} \subseteq Columns(df)
            THEN [err |-> "none", df |-> df,
                  out |-> <<DateValues(df), ColumnValues(df, c1[1]), ColumnValues(df, c1[2]),
                            ColumnValues(df, c2[1]), ColumnValues(df, c2[2])>>]
            ELSE [err |-> "KeyError", df |-> df, out |-> NoOut]

\* A float result: absent (NaN), +inf, -inf or the exact quotient p / q
Absent == [k |-> "nan", p |-> 0, q |-> 1]
PosInf == [k |-> "inf", p |-> 0, q |-> 1]
NegInf == [k |-> "-inf", p |-> 0, q |-> 1]
Quot(p, q) == [k |-> "num", p |-> p, q |-> q]

\* the non-absent numbers of a column, in row order
NumbersOf(vals) ==
    LET kept == SelectSeq(vals, LAMBDA c : c.k = "num")
    IN [i \in 1..Len(kept) |-> kept[i].n]

RECURSIVE SumSeq(_)
SumSeq(ns) == IF ns = <<>> THEN 0 ELSE ns[1] + SumSeq(Tail(ns))

MaxSeq(ns) == CHOOSE m \in {ns[i] : i \in 1..Len(ns)} : \A i \in 1..Len(ns) : ns[i] <= m
MinSeq(ns) == CHOOSE m \in {ns[i] : i \in 1..Len(ns)} : \A i \in 1..Len(ns) : ns[i] >= m

\* Series.mean / max / min / sum with the default skipna=True (lines 133-136)
SeriesStats(vals) ==
    LET ns == NumbersOf(vals)
    IN [mean |-> IF ns = <<>> THEN Absent ELSE Quot(SumSeq(ns), Len(ns)),
        max |-> IF ns = <<>> THEN Absent ELSE Quot(MaxSeq(ns), 1),
        min |-> IF ns = <<>> THEN Absent ELSE Quot(MinSeq(ns), 1),
        sum |-> Quot(SumSeq(ns), 1)]

\* a text in a column makes the reductions of an object column raise TypeError
HasText(vals) == \E i \in 1..Len(vals) : vals[i].k = "str"

calculate_statistics(df, metric) ==
    IF metric \notin Metrics THEN [err |-> "ValueError", df |-> df, out |-> NoOut]
    ELSE LET user1_col == metric_mapping(metric)[1]
             user2_col == metric_mapping(metric)[2]
         IN IF user1_col \notin Columns(df) \/ user2_col \notin Columns(df)
            THEN [err |-> "KeyError", df |-> df, out |-> NoOut]
            ELSE IF HasText(ColumnValues(df, user1_col)) \/ HasText(ColumnValues(df, user2_col))
            THEN [err |-> "TypeError", df |-> df, out |-> NoOut]
            ELSE [err |-> "none", df |-> df,
                  out |-> [user1 |-> SeriesStats(ColumnValues(df, user1_col)),
                           user2 |-> SeriesStats(ColumnValues(df, user2_col))]]

(***************************************************************************)
(* Series.div (lines 52-59).  Two numeric columns divide as IEEE floats:   *)
(* x / 0 is +inf or -inf, 0 / 0 and anything with NaN is NaN.  When a      *)
(* column has dtype object the division is Python's, element by element:   *)
(* a zero divisor raises ZeroDivisionError, a text operand TypeError;      *)
(* after a TypeError pandas retries on the rows where both operands are    *)
(* present.                                                                *)
(***************************************************************************)
FloatDiv(a, e) ==
    IF a.k # "num" \/ e.k # "num" THEN Absent
    ELSE IF e.n # 0 THEN Quot(a.n * 100, e.n)
    ELSE IF a.n > 0 THEN PosInf
    ELSE IF a.n < 0 THEN NegInf
    ELSE Absent

ElementError(a, e) ==
    IF a.k = "str" \/ e.k = "str" THEN "TypeError"
    ELSE IF e.k = "num" /\ e.n = 0 THEN "ZeroDivisionError"
    ELSE "none"

\* the exception of the first failing element among the rows of idx, "none" if no one fails
FirstError(adds, exchanges, idx) ==
    LET bad == { i \in idx : ElementError(adds[i], exchanges[i]) # "none" }
    IN IF bad = {} THEN "none"
       ELSE LET first == CHOOSE i \in bad : \A j \in bad : i <= j
            IN ElementError(adds[first], exchanges[first])

ObjectDivError(adds, exchanges) ==
    LET all == 1..Len(adds)
        e1 == FirstError(adds, exchanges, all)
    IN IF e1 # "TypeError" THEN e1
       ELSE FirstError(adds, exchanges,
                       { i \in all : adds[i].k # "nan" /\ exchanges[i].k # "nan" })

\* one conversion-rate column: add.div(exchange) * 100
RateColumn(df, add_col, exchange_col) ==
    LET adds == ColumnValues(df, add_col)
        exchanges == ColumnValues(df, exchange_col)
        python == df.dtype[add_col] = "object" \/ df.dtype[exchange_col] = "object"
        e == IF python THEN ObjectDivError(adds, exchanges) ELSE "none"
    IN [err |-> e,
        vals |-> IF e # "none" THEN <<>>
                 ELSE [i \in 1..Len(adds) |-> FloatDiv(adds[i], exchanges[i])]]

\* df with the two rate columns written into it
WithRateColumns(df, rates1, rates2) ==
    [rows |-> [i \in 1..Len(df.rows) |->
                 [date |-> df.rows[i].date,
                  v |-> [f \in Columns(df) \cup {"user1_conversion_rate",
                                                 "user2_conversion_rate"} |->
                           IF f = "user1_conversion_rate" THEN rates1[i]
                           ELSE IF f = "user2_conversion_rate" THEN rates2[i]
                           ELSE df.rows[i].v[f]]]],
     dtype |-> [f \in Columns(df) \cup {"user1_conversion_rate",
                                        "user2_conversion_rate"} |->
                  IF f \in Columns(df) THEN df.dtype[f] ELSE "float64"],
     dateDtype |-> df.dateDtype]

\* calculate_conversion_rates with result_df = df in place of df.copy(): the
\* rate columns are written into the caller's table
calculate_conversion_rates_no_copy(df) ==
    IF ~({"user1_add", "user1_exchange"} \subseteq Columns(df))
    THEN [err |-> "KeyError", df |-> df, out |-> NoOut]
    ELSE LET r1 == RateColumn(df, "user1_add", "user1_exchange")
         IN IF r1.err # "none" THEN [err |-> r1.err, df |-> df, out |-> NoOut]
            ELSE IF ~({"user2_add", "user2_exchange"} \subseteq Columns(df))
            THEN [err |-> "KeyError", df |-> df, out |-> NoOut]
            ELSE LET r2 == RateColumn(df, "user2_add", "user2_exchange")
                 IN IF r2.err # "none" THEN [err |-> r2.err, df |-> df, out |-> NoOut]
                    ELSE [err |-> "none",
                          df |-> WithRateColumns(df, r1.vals, r2.vals),
                          out |-> [base |-> df,
                                   user1_conversion_rate |-> r1.vals,
                                   user2_conversion_rate |-> r2.vals]]

\* calculate_conversion_rates (lines 49-63): result_df is a copy of df with
\* the two rate columns added
calculate_conversion_rates(df) ==
    IF ~({"user1_add", "user1_exchange"} \subseteq Columns(df))
    THEN [err |-> "KeyError", df |-> df, out |-> NoOut]
    ELSE LET r1 == RateColumn(df, "user1_add", "user1_exchange")
         IN IF r1.err # "none" THEN [err |-> r1.err, df |-> df, out |-> NoOut]
            ELSE IF ~({"user2_add", "user2_exchange"} \subseteq Columns(df))
            THEN [err |-> "KeyError", df |-> df, out |-> NoOut]
            ELSE LET r2 == RateColumn(df, "user2_add", "user2_exchange")
                 IN IF r2.err # "none" THEN [err |-> r2.err, df |-> df, out |-> NoOut]
                    ELSE [err |-> "none", df |-> df,
                          out |-> [base |-> df,
                                   user1_conversion_rate |-> r1.vals,
                                   user2_conversion_rate |-> r2.vals]]

(***************************************************************************)
(* Workbooks.  A data row is given by its date cell and a pattern that     *)
(* fixes its metric cells; every metric column carries its own numbers, so *)
(* that the column a canonical field was read from shows in the table.     *)
(***************************************************************************)
MaxRows == 2

RowPatterns == {"plain", "zero", "blank"}

\* the metric cell of column c in a row of the given pattern; with the standard
\* labels columns 4 and 11 are the exchange counts, 5 and 12 the add counts
PatternCell(p, c) ==
    IF c \in {6, 7} THEN NaN
    ELSE CASE p = "plain" -> Num(10 + c)
           [] p = "zero" -> IF c \in {4, 11} THEN Num(0) ELSE Num(5)
           [] p = "text" -> IF c \in {1, 8} THEN Str("pending") ELSE Num(20 + c)
           [] OTHER -> NaN

DataRow(ncols, dateCell, p) ==
    [i \in 1..ncols |-> IF i = 1 THEN dateCell ELSE PatternCell(p, i - 1)]

\* row 0: the two user names in columns 0 and 7
NamesRow(ncols, n1, n2) ==
    [i \in 1..ncols |-> IF i = 1 THEN n1 ELSE IF i = 8 THEN n2 ELSE NaN]

\* row 1: the date label in columns 0 and 7, block1 in columns 1-5, block2 in 8-12
LabelRow(ncols, dateLabel, block1, block2) ==
    [i \in 1..ncols |->
        IF i = 1 THEN dateLabel
        ELSE IF i = 8 THEN Str("riqi")
        ELSE IF i \in 2..6 THEN block1[i - 1]
        ELSE IF i \in 9..13 THEN block2[i - 8]
        ELSE NaN]

Sheet(exists, ncols, dateLabel, block1, block2, datarows) ==
    [exists |-> exists, ncols |-> ncols,
     rows |-> <<NamesRow(ncols, Str("Alice"), Str("Bob")),
                LabelRow(ncols, dateLabel, block1, block2)>> \o datarows]

\* label blocks
StdBlock == <<Str("exposure"), Str("greet"), Str("kill"), Str("exchange"), Str("add")>>
NoKillBlock == <<Str("exposure"), Str("greet"), Str("exchange"), Str("add"), NaN>>

\* a block in another order, one whose column 1 carries an unknown label (and no
\* column the exposure label), one with a label repeated, one with blanks
\* around a label
PermBlock == <<Str("add"), Str("exchange"), Str("kill"), Str("greet"), Str("exposure")>>
UnknownBlock == <<Str("other"), Str("greet"), Str("kill"), Str("exchange"), Str("add")>>
RepeatBlock == <<Str("exposure"), Str("exposure"), Str("kill"), Str("exchange"), Str("add")>>
SpacedBlock == <<Str(" exposure "), Str("greet"), Str("kill"), Str("exchange"), Str("add")>>

\* what row 1 holds in column 0: the date label, nothing, or (a sheet whose
\* label row is missing or misplaced) a date
DateLabels == {Str("riqi"), NaN, Str("2025-01-02")}

\* date cells of the data rows: a serial number (2024-12-31), a datetime with a
\* time of day (2025-01-01 12:00) and a text that is no date
DateCells == {Num(45657000), Dt(45658500), Str("N/A")}

\* sequences of at most n data rows of a sheet with ncols columns, each row
\* given by its date cell and its pattern
RowChoices(cells, patterns, n) ==
    UNION { [1..k -> cells \X patterns] : k \in 0..n }
RECURSIVE DataRows(_, _)
DataRows(ncols, choice) ==
    IF Len(choice) = 0 THEN <<>>
    ELSE Append(DataRows(ncols, SubSeq(choice, 1, Len(choice) - 1)),
                DataRow(ncols, choice[Len(choice)][1], choice[Len(choice)][2]))
\* A kind of workbook: everything but its data rows, with the cells and patterns
\* its data rows are drawn from and the most data rows it holds
Kind(exists, ncols, dateLabel, block1, block2, cells, patterns, n) ==
    [exists |-> exists, ncols |-> ncols, dl |-> dateLabel, b1 |-> block1, b2 |-> block2,
     cells |-> cells, patterns |-> patterns, n |-> n]
KindChoices(kind) == RowChoices(kind.cells, kind.patterns, kind.n)
SheetOf(kind, choice) ==
    Sheet(kind.exists, kind.ncols, kind.dl, kind.b1, kind.b2, DataRows(kind.ncols, choice))

\* the workbooks the script is run on: 13 columns with the kill count,
\* 12 columns without it, a sheet whose dates are all unreadable under each
\* content of row 1 column 0, 11 columns, and a path that does not exist
AppKinds ==
    { Kind(TRUE, 13, Str("riqi"), StdBlock, StdBlock, DateCells, RowPatterns, MaxRows),
      Kind(TRUE, 12, Str("riqi"), NoKillBlock, NoKillBlock, DateCells, RowPatterns, MaxRows),
      Kind(TRUE, 11, Str("riqi"), NoKillBlock, NoKillBlock, {Num(45657000)}, {"plain"}, 1),
      Kind(FALSE, 13, Str("riqi"), StdBlock, StdBlock, {}, {}, 0) }
    \cup { Kind(TRUE, 13, dl, StdBlock, StdBlock, {Str("N/A")}, {"plain"}, MaxRows) :
             dl \in DateLabels }

\* the workbooks the loader alone is run on: every label block in columns 1-5,
\* 12 or 13 columns, more kinds of date cells and of metric cells
LoadBlocks == {StdBlock, NoKillBlock, PermBlock, UnknownBlock, RepeatBlock, SpacedBlock}
LoadDateCells == DateCells \cup {Num(45657750), Str("2025-01-01")}
LoadPatterns == {"plain", "text"}
LoadKinds ==
    { Kind(TRUE, n, Str("riqi"), b1, b2, LoadDateCells, LoadPatterns, MaxRows) :
        n \in {12, 13}, b1 \in LoadBlocks, b2 \in {StdBlock, RepeatBlock} }
    \cup { Kind(TRUE, n, dl, StdBlock, StdBlock, LoadDateCells, LoadPatterns, MaxRows) :
        n \in {12, 13}, dl \in DateLabels }
    \cup { Kind(TRUE, 11, Str("riqi"), NoKillBlock, NoKillBlock, {Num(45657000)}, {"plain"}, 1),
           Kind(FALSE, 13, Str("riqi"), StdBlock, StdBlock, {}, {}, 0) }

(***************************************************************************)
(* The Streamlit script (src/app.py, main).  One run goes                  *)
(*   load -> select -> filter -> metric -> stats -> conv -> done           *)
(* and ends early in "failed" (load error, st.stop), "stopped" (st.stop    *)
(* after a warning) or "error" (the except of line 334).                   *)
(***************************************************************************)
NoSel == [mode |-> "", metric |-> "", metric1 |-> "", metric2 |-> "",
          start |-> 0, end |-> 0, conv |-> FALSE]
NoCall == [call |-> "", err |-> "none", val |-> NoOut]
NoDate == Str("")

Call(name, r) == [call |-> name, err |-> r.err, val |-> r.out]

\* Timestamp.date() as a serial day
DayOf(ts) == ts.t \div MilliPerDay

\* df['date'].min().date() and df['date'].max().date(); load returns the rows sorted
MinDate(df) == DayOf(df.rows[1].date)
MaxDate(df) == DayOf(df.rows[Len(df.rows)].date)

Init ==
    /\ pc = "idle"
    /\ sheet = Sheet(FALSE, 0, NaN, <<>>, <<>>, <<>>)
    /\ table = NoTable
    /\ names = <<>>
    /\ loadErr = "none"
    /\ warnDrop = 0
    /\ sel = NoSel
    /\ filtered = NoTable
    /\ out = NoCall
    /\ dateIn = NoDate
    /\ dateOut = NaT

\* lines 54-70: a file is uploaded and written to a temporary path
Upload ==
    /\ pc = "idle"
    /\ \E kind \in AppKinds : \E ch \in KindChoices(kind) : sheet' = SheetOf(kind, ch)
    /\ pc' = "load"
    /\ table' = NoTable
    /\ names' = <<>>
    /\ loadErr' = "none"
    /\ warnDrop' = 0
    /\ sel' = NoSel
    /\ filtered' = NoTable
    /\ out' = NoCall
    /\ UNCHANGED <<dateIn, dateOut>>

\* line 73 and the except of lines 147-149
Load ==
    /\ pc = "load"
    /\ \E r \in load_excel_data(sheet) :
          /\ table' = r.df
          /\ names' = r.names
          /\ loadErr' = r.err
          /\ warnDrop' = r.warn
          /\ pc' = IF r.err = "none" THEN "select" ELSE "failed"
    /\ UNCHANGED <<sheet, sel, filtered, out, dateIn, dateOut>>

\* lines 76-145: the widgets; two equal metrics stop the run (lines 111-113)
Select ==
    /\ pc = "select"
    /\ \E mode \in {"single", "dual"}, m1 \in Metrics, m2 \in Metrics,
          d1 \in MinDate(table)..MaxDate(table), d2 \in MinDate(table)..MaxDate(table),
          c \in BOOLEAN :
          /\ d1 <= d2
          /\ mode = "single" => m2 = m1
          /\ sel' = [mode |-> mode,
                     metric |-> IF mode = "single" THEN m1 ELSE "",
                     metric1 |-> IF mode = "dual" THEN m1 ELSE "",
                     metric2 |-> IF mode = "dual" THEN m2 ELSE "",
                     start |-> d1, end |-> d2, conv |-> c]
          /\ pc' = IF mode = "dual" /\ m1 = m2 THEN "stopped" ELSE "filter"
    /\ UNCHANGED <<sheet, table, names, loadErr, warnDrop, filtered, out, dateIn, dateOut>>

\* lines 157-171
Filter ==
    /\ pc = "filter"
    /\ LET r == filter_by_date_range(table, sel.start, sel.end)
       IN /\ table' = r.df
          /\ filtered' = r.out
          /\ out' = [call |-> "filter_by_date_range", err |-> r.err, val |-> NoOut]
          /\ pc' = IF r.out.rows = <<>> THEN "stopped" ELSE "metric"
    /\ UNCHANGED <<sheet, names, loadErr, warnDrop, sel, dateIn, dateOut>>

\* lines 179 and 215-217
Metric ==
    /\ pc = "metric"
    /\ LET r == IF sel.mode = "single"
                THEN get_metric_data(filtered, sel.metric)
                ELSE get_dual_metric_data(filtered, sel.metric1, sel.metric2)
       IN /\ filtered' = r.df
          /\ out' = Call(IF sel.mode = "single" THEN "get_metric_data"
                         ELSE "get_dual_metric_data", r)
          /\ pc' = IF r.err = "none" THEN "stats" ELSE "error"
    /\ UNCHANGED <<sheet, table, names, loadErr, warnDrop, sel, dateIn, dateOut>>

\* lines 190 and 231-232 (in dual mode the statistics shown last are metric2's)
Stats ==
    /\ pc = "stats"
    /\ LET r1 == calculate_statistics(filtered,
                    IF sel.mode = "single" THEN sel.metric ELSE sel.metric1)
           r == IF sel.mode = "single" \/ r1.err # "none" THEN r1
                ELSE calculate_statistics(r1.df, sel.metric2)
       IN /\ filtered' = r.df
          /\ out' = Call("calculate_statistics", r)
          /\ pc' = IF r.err # "none" THEN "error"
                   ELSE IF sel.conv THEN "conv" ELSE "done"
    /\ UNCHANGED <<sheet, table, names, loadErr, warnDrop, sel, dateIn, dateOut>>

\* lines 279-283
Conv ==
    /\ pc = "conv"
    /\ LET r == calculate_conversion_rates(filtered)
       IN /\ filtered' = r.df
          /\ out' = Call("calculate_conversion_rates", r)
          /\ pc' = IF r.err = "none" THEN "done" ELSE "error"
    /\ UNCHANGED <<sheet, table, names, loadErr, warnDrop, sel, dateIn, dateOut>>

\* a widget changes: Streamlit runs the script again, load_data answers from its cache
Rerun ==
    /\ pc \in {"stopped", "error", "done"}
    /\ table # NoTable
    /\ pc' = "select"
    /\ sel' = NoSel
    /\ filtered' = NoTable
    /\ out' = NoCall
    /\ UNCHANGED <<sheet, table, names, loadErr, warnDrop, dateIn, dateOut>>

Next == Upload \/ Load \/ Select \/ Filter \/ Metric \/ Stats \/ Conv \/ Rerun

Spec == Init /\ [][Next]_vars

(***************************************************************************)
(* The loader alone: load_excel_data called on one workbook.               *)
(***************************************************************************)
InitLoad ==
    /\ pc = "load"
    /\ \E kind \in LoadKinds : \E ch \in KindChoices(kind) : sheet = SheetOf(kind, ch)
    /\ table = NoTable
    /\ names = <<>>
    /\ loadErr = "none"
    /\ warnDrop = 0
    /\ sel = NoSel
    /\ filtered = NoTable
    /\ out = NoCall
    /\ dateIn = NoDate
    /\ dateOut = NaT

SpecLoad == InitLoad /\ [][Load]_vars

(***************************************************************************)
(* The loader on workbooks whose row 0 varies: a name, a name with blanks  *)
(* around it, a cell of blanks only, an empty cell, an NA marker, a number.*)
(***************************************************************************)
NameCells == {Str("Alice"), Str(" Alice "), Str("  "), NaN, Str("N/A"), Num(7)}
NameKinds ==
    { Kind(TRUE, n, Str("riqi"), StdBlock, StdBlock, DateCells, {"plain"}, MaxRows) :
        n \in {11, 12, 13} }

\* the workbook with the cells n1 and n2 in row 0, columns 0 and 7
Renamed(sh, n1, n2) == [sh EXCEPT !.rows[1] = NamesRow(sh.ncols, n1, n2)]

InitNames ==
    /\ pc = "load"
    /\ \E kind \in NameKinds : \E ch \in KindChoices(kind) :
          \E n1 \in NameCells, n2 \in NameCells :
             sheet = Renamed(SheetOf(kind, ch), n1, n2)
    /\ table = NoTable
    /\ names = <<>>
    /\ loadErr = "none"
    /\ warnDrop = 0
    /\ sel = NoSel
    /\ filtered = NoTable
    /\ out = NoCall
    /\ dateIn = NoDate
    /\ dateOut = NaT

SpecNames == InitNames /\ [][Load]_vars

(***************************************************************************)
(* The date normaliser alone: safe_convert_date called on one cell.        *)
(***************************************************************************)
DateInputs ==
    { Num(k * 250) : k \in -8..8 }
    \cup { Num(-1), Num(1), Num(999), Num(1001) }
    \cup { Num(45657000 + k * 250) : k \in 0..12 }
    \cup { Num(SerialMax * MilliPerDay + k * 500) : k \in -2..2 }
    \cup { Num(TimestampMin - MilliPerDay), Num(TimestampMax + MilliPerDay) }
    \cup { Dt(45657000 + k * 500) : k \in 0..5 }
    \cup { Str(t) : t \in ParseableStrings \cup DateHeaderWords \cup {" riqi ", "N/A", ""} }
    \cup { NaN }

InitDate ==
    /\ pc = "date"
    /\ dateIn \in DateInputs
    /\ dateOut = NaT
    /\ sheet = Sheet(FALSE, 0, NaN, <<>>, <<>>, <<>>)
    /\ table = NoTable
    /\ names = <<>>
    /\ loadErr = "none"
    /\ warnDrop = 0
    /\ sel = NoSel
    /\ filtered = NoTable
    /\ out = NoCall

\* date_col.apply(safe_convert_date) on one cell (line 148)
ConvertDate ==
    /\ pc = "date"
    /\ dateOut' = safe_convert_date(dateIn)
    /\ pc' = "dateDone"
    /\ UNCHANGED <<sheet, table, names, loadErr, warnDrop, sel, filtered, out, dateIn>>

SpecDate == InitDate /\ [][ConvertDate]_vars

(***************************************************************************)
(* The query functions alone: called directly, in any order and any number *)
(* of times, on a table that load_excel_data returned.                     *)
(***************************************************************************)
QueryPatterns == {"plain", "zero", "blank", "text"}
QueryKinds ==
    { Kind(TRUE, 13, Str("riqi"), StdBlock, StdBlock, DateCells, QueryPatterns, MaxRows),
      Kind(TRUE, 12, Str("riqi"), NoKillBlock, NoKillBlock, DateCells, QueryPatterns, MaxRows) }

\* metric names a caller may pass: the five of metric_mapping and two that are not
MetricArgs == Metrics \cup {"other", " exposure"}

InitQuery ==
    /\ pc = "query"
    /\ \E kind \in QueryKinds : \E ch \in KindChoices(kind) :
          \E r \in load_excel_data(SheetOf(kind, ch)) :
             /\ r.err = "none"
             /\ sheet = SheetOf(kind, ch)
             /\ table = r.df
             /\ names = r.names
             /\ warnDrop = r.warn
    /\ loadErr = "none"
    /\ sel = NoSel
    /\ filtered = NoTable
    /\ out = NoCall
    /\ dateIn = NoDate
    /\ dateOut = NaT

QFilter ==
    /\ pc = "query"
    /\ \E d1 \in (MinDate(table) - 1)..(MaxDate(table) + 1),
          d2 \in (MinDate(table) - 1)..(MaxDate(table) + 1) :
          LET r == filter_by_date_range(table, d1, d2)
          IN /\ table' = r.df
             /\ filtered' = r.out
             /\ sel' = [NoSel EXCEPT !.start = d1, !.end = d2]
             /\ out' = [call |-> "filter_by_date_range", err |-> r.err, val |-> NoOut]
    /\ pc' = "returned"
    /\ UNCHANGED <<sheet, names, loadErr, warnDrop, dateIn, dateOut>>

QMetric ==
    /\ pc = "query"
    /\ \E m \in MetricArgs :
          LET r == get_metric_data(table, m)
          IN /\ table' = r.df
             /\ sel' = [NoSel EXCEPT !.metric = m]
             /\ out' = Call("get_metric_data", r)
    /\ filtered' = NoTable
    /\ pc' = "returned"
    /\ UNCHANGED <<sheet, names, loadErr, warnDrop, dateIn, dateOut>>

QDual ==
    /\ pc = "query"
    /\ \E m1 \in MetricArgs, m2 \in MetricArgs :
          LET r == get_dual_metric_data(table, m1, m2)
          IN /\ table' = r.df
             /\ sel' = [NoSel EXCEPT !.metric1 = m1, !.metric2 = m2]
             /\ out' = Call("get_dual_metric_data", r)
    /\ filtered' = NoTable
    /\ pc' = "returned"
    /\ UNCHANGED <<sheet, names, loadErr, warnDrop, dateIn, dateOut>>

QStats ==
    /\ pc = "query"
    /\ \E m \in MetricArgs :
          LET r == calculate_statistics(table, m)
          IN /\ table' = r.df
             /\ sel' = [NoSel EXCEPT !.metric = m]
             /\ out' = Call("calculate_statistics", r)
    /\ filtered' = NoTable
    /\ pc' = "returned"
    /\ UNCHANGED <<sheet, names, loadErr, warnDrop, dateIn, dateOut>>

QConv ==
    /\ pc = "query"
    /\ LET r == calculate_conversion_rates(table)
       IN /\ table' = r.df
          /\ out' = Call("calculate_conversion_rates", r)
    /\ sel' = NoSel
    /\ filtered' = NoTable
    /\ pc' = "returned"
    /\ UNCHANGED <<sheet, names, loadErr, warnDrop, dateIn, dateOut>>

\* the caller takes the result and is free to call again
QReturn ==
    /\ pc = "returned"
    /\ pc' = "query"
    /\ sel' = NoSel
    /\ filtered' = NoTable
    /\ out' = NoCall
    /\ UNCHANGED <<sheet, table, names, loadErr, warnDrop, dateIn, dateOut>>

NextQuery == QFilter \/ QMetric \/ QDual \/ QStats \/ QConv \/ QReturn

SpecQuery == InitQuery /\ [][NextQuery]_vars

(***************************************************************************)
(* The claims.                                                             *)
(***************************************************************************)
Loaded == pc = "select"

\* the tables a load of the workbook may return
LoadedTables(sh) == { r.df : r \in load_excel_data(sh) }
DataRowsOf(sh) == IF Len(sh.rows) >= 3 THEN SubSeq(sh.rows, 3, Len(sh.rows)) ELSE <<>>

\* the cell of a canonical field in a row, absent when the table has no such column
FieldOrAbsent(df, i, f) == IF f \in Columns(df) THEN df.rows[i].v[f] ELSE NaN
ValuesOrAbsent(df, f) == [i \in 1..Len(df.rows) |-> FieldOrAbsent(df, i, f)]

\* the conversion rate the specification asks for
ExpectedRate(a, e) ==
    IF a.k # "num" \/ e.k # "num" \/ e.n = 0 THEN Absent ELSE Quot(a.n * 100, e.n)

\* C1: calculate_conversion_rates never raises, and for every row and each
\* entity the rate is absent when the exchange count is 0 or absent or the add
\* count is absent (so also for exchange = 0, add = 5), and add / exchange * 100
\* otherwise.
C1_ConversionRateAbsentOrQuotient ==
    out.call = "calculate_conversion_rates" =>
        /\ out.err = "none"
        /\ \A i \in 1..Len(table.rows) :
              /\ out.val.user1_conversion_rate[i] =
                    ExpectedRate(FieldOrAbsent(table, i, "user1_add"),
                                 FieldOrAbsent(table, i, "user1_exchange"))
              /\ out.val.user2_conversion_rate[i] =
                    ExpectedRate(FieldOrAbsent(table, i, "user2_add"),
                                 FieldOrAbsent(table, i, "user2_exchange"))

NoKillLabel(sh) ==
    \A c \in 0..(sh.ncols - 1) : HeaderVal(Cell(sh.rows[2], c)) # "kill"
AllAbsent(vals) == \A i \in 1..Len(vals) : vals[i].k = "nan"

\* C2: on a table loaded from a 12-column sheet without a kill-count label,
\* get_metric_data and calculate_statistics called with the kill-count metric
\* raise nothing, and get_metric_data returns two all-absent value sequences
\* as long as the date sequence.
C2_KillLookupOnTwelveColumns ==
    (/\ sheet.ncols = 12
     /\ NoKillLabel(sheet)
     /\ out.call \in {"get_metric_data", "calculate_statistics"}
     /\ sel.metric = "kill") =>
        /\ out.err = "none"
        /\ out.call = "get_metric_data" =>
              /\ Len(out.val[2]) = Len(out.val[1])
              /\ Len(out.val[3]) = Len(out.val[1])
              /\ Len(out.val[1]) = Len(table.rows)
              /\ AllAbsent(out.val[2])
              /\ AllAbsent(out.val[3])

\* C3: the date normaliser returns the no-date marker for every negative
\* number and for every number strictly between 0 and 1.
C3_NoDateBelowOne ==
    (/\ pc = "dateDone"
     /\ dateIn.k = "num"
     /\ (dateIn.n < 0 \/ (0 < dateIn.n /\ dateIn.n < MilliPerDay))) =>
        dateOut = NaT

\* C4: a loaded table has no row with a null date, and the reported number of
\* dropped rows plus the number of retained rows is the number of raw data
\* rows (sheet rows 2 and later).
C4_DroppedPlusRetainedIsDataRows ==
    Loaded =>
        /\ \A i \in 1..Len(table.rows) : ~table.rows[i].date.nat
        /\ warnDrop + Len(table.rows) = Len(DataRowsOf(sheet))

Perms(n) == { p \in [1..n -> 1..n] : \A i, j \in 1..n : p[i] = p[j] => i = j }

\* the sheet with the five columns first .. first + 4 permuted, data included:
\* the new column first + j - 1 is the old column first + p[j] - 1
PermuteColumns(sh, first, p) ==
    [sh EXCEPT !.rows =
        [r \in 1..Len(sh.rows) |->
            [i \in 1..sh.ncols |->
                IF i - 1 \in first..(first + 4)
                THEN sh.rows[r][first + p[i - first]]
                ELSE sh.rows[r][i]]]]

\* C5: the header resolver is order-independent: permuting the columns of a
\* block (1-5 or 8-12) together with their data gives the same table.
C5_ColumnOrderIndependent ==
    Loaded =>
        \A p \in Perms(5) :
            /\ table \in LoadedTables(PermuteColumns(sheet, 1, p))
            /\ sheet.ncols >= 13 =>
                  table \in LoadedTables(PermuteColumns(sheet, 8, p))

\* C6: in the column mapping at most one raw column maps to any canonical
\* field name.
C6_OneColumnPerField ==
    Loaded =>
        LET m == ColumnMapping(sheet)
        IN \A i, j \in 1..Len(m) : m[i][2] = m[j][2] => i = j

\* C7: filter_by_date_range returns exactly the rows whose calendar day d has
\* start <= d <= end, in their order, and raises nothing (an empty result
\* included).
C7_FilterKeepsWholeEndDay ==
    out.call = "filter_by_date_range" =>
        /\ out.err = "none"
        /\ filtered.rows =
              SelectSeq(table.rows,
                        LAMBDA r : sel.start <= DayOf(r.date) /\ DayOf(r.date) <= sel.end)

\* C8: no query function changes the table passed to it: every call, in any
\* sequence of calls, leaves the table as it was, so the table stays the one
\* the load produced.
C8_QueriesLeaveTableUnchanged ==
    [][table' = table]_vars

\* every query function has been called on a table of two rows, the last one
\* (calculate_conversion_rates) returning its result
C8_Witness ==
    /\ pc = "returned"
    /\ out.call = "calculate_conversion_rates"
    /\ out.err = "none"
    /\ Len(table.rows) = 2

\* C9: calculate_statistics raises nothing and gives, for each entity, mean,
\* max, min and sum over the non-absent values of the metric; with no
\* non-absent value the sum is 0 and mean, max and min are absent.
C9_StatisticsOverPresentValues ==
    (out.call = "calculate_statistics" /\ sel.metric \in Metrics) =>
        /\ out.err = "none"
        /\ out.val.user1 = SeriesStats(ValuesOrAbsent(table, metric_mapping(sel.metric)[1]))
        /\ out.val.user2 = SeriesStats(ValuesOrAbsent(table, metric_mapping(sel.metric)[2]))

NoDataRowParses(sh) ==
    \A i \in 1..Len(DataRowsOf(sh)) : safe_convert_date(Cell(DataRowsOf(sh)[i], 0)).nat

\* C10: when the file does not exist, the sheet has fewer than 12 columns or no
\* data row has a parseable date, the load ends in an error with no table, and
\* the script runs no filter, lookup, statistics or chart step.
C10_FailedLoadHalts ==
    (/\ pc \notin {"idle", "load"}
     /\ (~sheet.exists \/ sheet.ncols < MinColumns \/ NoDataRowParses(sheet))) =>
        /\ pc = "failed"
        /\ loadErr # "none"
        /\ table = NoTable
        /\ filtered = NoTable
        /\ out.call = ""

\* the rows of df (label row and data rows) whose date is readable, as rows
\* of the table and in the order of the sheet
RetainedRows(sh) ==
    DropNaDate([i \in 1..Len(DfRows(sh)) |-> BuildRow(ColumnMapping(sh), DfRows(sh)[i])])

\* C17: the rows of a loaded table are in non-decreasing date order, none is
\* removed for having the date of another, and the sort is stable: rows of
\* equal date keep the order they have in the sheet.
C17_SortedAndStable ==
    Loaded =>
        /\ \A i \in 1..(Len(table.rows) - 1) :
              table.rows[i].date.t <= table.rows[i + 1].date.t
        /\ Len(table.rows) = Len(RetainedRows(sheet))
        /\ table.rows = SortByDate(RetainedRows(sheet))

\* the values a lookup of the metric has to return: the dates and the two
\* entities' cells, an absent cell (or a missing column) staying absent
ExpectedLookup(df, metric) ==
    <<ValuesOrAbsent(df, metric_mapping(metric)[1]),
      ValuesOrAbsent(df, metric_mapping(metric)[2])>>

\* C11: get_metric_data returns three and get_dual_metric_data five sequences
\* as long as the table, absent values kept absent; each raises the
\* invalid-metric error exactly when a metric name is not one of the five
\* (exact match), and get_dual_metric_data accepts two equal metric names.
C11_LookupSequencesAndInvalidMetric ==
    /\ out.call = "get_metric_data" =>
          IF sel.metric \in Metrics
          THEN /\ out.err = "none"
               /\ out.val = <<DateValues(table)>> \o ExpectedLookup(table, sel.metric)
          ELSE out.err = "ValueError"
    /\ out.call = "get_dual_metric_data" =>
          IF sel.metric1 \in Metrics /\ sel.metric2 \in Metrics
          THEN /\ out.err = "none"
               /\ out.val = <<DateValues(table)>> \o ExpectedLookup(table, sel.metric1)
                                \o ExpectedLookup(table, sel.metric2)
          ELSE out.err = "ValueError"

\* a name cell that is blank: empty (or an NA marker) or of blanks only
BlankName(c) == ReadCell(c).k = "nan" \/ (c.k = "str" /\ Strip(c.s) = "")
ExpectedName(c, default) == IF BlankName(c) THEN default ELSE Strip(CellText(c))

\* C12: the user names a load returns are the trimmed texts of row 0 column 0
\* and row 0 column 7, each replaced by its default name when the cell is
\* blank (empty or of blanks only); no returned name is the empty string.
C12_NamesTrimmedOrDefault ==
    Loaded =>
        /\ names[1] = ExpectedName(sheet.rows[1][1], DefaultName1)
        /\ names[2] = ExpectedName(sheet.rows[1][8], DefaultName2)
        /\ names[1] # "" /\ names[2] # ""

\* the legacy day-counts: whole numbers of days from 1 to 100000
DayCounts == { c \in DateInputs : /\ c.k = "num"
                                   /\ c.n % MilliPerDay = 0
                                   /\ SerialMin * MilliPerDay <= c.n
                                   /\ c.n <= SerialMax * MilliPerDay }

C14_NoKillFieldOnTwelveColumns ==
    (Loaded /\ sheet.ncols = 12) =>
        /\ AllAbsent(ValuesOrAbsent(table, "user1_kill"))
        /\ AllAbsent(ValuesOrAbsent(table, "user2_kill"))

\* the canonical field the label of raw column c stands for ("" when the
\* column lies in no block or its label is none of the five)
FieldOfLabel(sh, c) ==
    IF c \in 1..5 /\ c < sh.ncols THEN User1Field(HeaderVal(Cell(sh.rows[2], c)))
    ELSE IF c \in 8..12 /\ c < sh.ncols THEN User2Field(HeaderVal(Cell(sh.rows[2], c)))
    ELSE ""

\* C15: a raw column whose label is none of the five recognised labels is
\* left unmapped, and a canonical field is in the table only if a column of
\* that entity's block carries the matching label.
C15_UnlabelledColumnsUnmapped ==
    Loaded =>
        /\ \A i \in 1..Len(ColumnMapping(sheet)) :
              FieldOfLabel(sheet, ColumnMapping(sheet)[i][1]) # ""
        /\ \A f \in Columns(table) :
              \E c \in 0..(sheet.ncols - 1) : FieldOfLabel(sheet, c) = f

\* C16: in a loaded table a metric cell that is not a number is an absent
\* field (its row being kept): every metric field of every row is a number
\* or absent.
C16_MetricFieldsNumericOrAbsent ==
    Loaded =>
        \A i \in 1..Len(table.rows) :
            \A f \in Columns(table) : table.rows[i].v[f].k \in {"num", "nan"}

====
